---- MODULE Spec2Model ----
(***************************************************************************)
(* A model of the UGC studio: the image-generation endpoint               *)
(* (src/app/api/gemini/generate/route.ts), the datastore client cache     *)
(* (src/lib/schemas.ts, getSupabaseServerClient), the scenario generator  *)
(* (src/app/api/openai/scenarios/route.ts) and the client page            *)
(* (src/unnamed/part_000, Home).                                          *)
(*                                                                         *)
(* Every await of a handler is a step boundary: an action runs the code   *)
(* from one await to the next.  What the outside world answers (the image *)
(* provider, the assistant provider, the datastore, the request body) is  *)
(* drawn from small sets.                                                  *)
(***************************************************************************)
EXTENDS Integers, Sequences, FiniteSets, TLC

VARIABLES
    \* ---- process environment and module state of the server
    env,            \* process.env: which variables are set
    cachedClient,   \* src/lib/schemas.ts:36, "null" or "client"
    createCount,    \* how many times createClient returned a client
    \* ---- image-generation endpoint, per request handler
    gpc,            \* where the handler is
    gbody,          \* the request body
    gidx,           \* position of the for..of loop over scenarios
    results,        \* the results array
    gfetches,       \* outbound provider requests of this request, in order
    gsettled,       \* per settled provider call, in order: was it accepted
    ginserts,       \* datastore insert calls of this request, in order
    gresponse,      \* the HTTP response, status 0 while there is none
    glog,           \* what the request wrote to the server console
    \* ---- the assistant provider's side
    thread,         \* the messages of thread "thread_1", oldest first
    \* ---- scenario generator, the request being handled
    spc,            \* where the handler is
    sbody,          \* the request body
    sserved,        \* how many requests have arrived
    sarrival,       \* how many messages the thread held when the request arrived
    sposts,         \* messages.create calls of this request
    sruns,          \* the statuses the runs of this request ended with
    slists,         \* messages.list calls of this request
    sraw,           \* the assistant text the request went on to parse
    sresponse,      \* the HTTP response, status 0 while there is none
    slog,           \* what the request wrote to the server console
    \* ---- thread initializer
    tthreads,       \* how many threads the provider has created
    tserved,        \* how many requests have arrived
    tpc,            \* per request handler: where it is
    tcreates,       \* threads.create calls of the handler's request
    tsettled,       \* how the threads.create call settled, "" while it has not
    tresponse,      \* the HTTP response, status 0 while there is none
    tlog,           \* what the request wrote to the server console
    \* ---- the page (Home): React state
    threadId,               \* "" for null
    threadError,            \* "" for null
    initialisingThread,
    productFile,            \* "" for null, else the file's name
    productAudience,
    productDetails,
    scenarios,
    selectedScenarioIds,
    generatingScenarios,
    scenarioError,          \* "" for null
    generatedImages,
    generatingImages,
    imageError,             \* "" for null
    \* ---- the page: calls that have not settled
    threadFetches,          \* pending POST /api/openai/thread
    scenarioFetches,        \* pending POST /api/openai/scenarios, with their bodies
    imageCalls              \* pending handleGenerateImages calls

gvars == <<env, cachedClient, createCount, gpc, gbody, gidx, results,
           gfetches, gsettled, ginserts, gresponse, glog>>

svars == <<thread, spc, sbody, sserved, sarrival, sposts, sruns, slists, sraw, sresponse, slog>>

tvars == <<tthreads, tserved, tpc, tcreates, tsettled, tresponse, tlog>>

uvars == <<threadId, threadError, initialisingThread, productFile, productAudience,
           productDetails, scenarios, selectedScenarioIds, generatingScenarios,
           scenarioError, generatedImages, generatingImages, imageError,
           threadFetches, scenarioFetches, imageCalls>>

vars == <<gvars, svars, tvars, uvars>>

----------------------------------------------------------------------------
(* Bounds *)

\* longest scenarios array of a request body
MaxScenarios == 2

\* the request handlers of the image endpoint that may be running at once,
\* and the one that runs where requests come one after the other
Handlers == {"h1", "h2"}
OneHandler == {"h1"}

\* how many scenario-generation requests arrive in one behaviour
MaxRequests == 2

\* how many calls of one kind the page may have pending at once
MaxPending == 2

\* the request handlers of the thread initializer that may be running at once
ThreadHandlers == {"t1", "t2"}

\* how many thread-creation requests arrive in one behaviour
MaxThreadRequests == 2

\* longest run of white space around a code fence
MaxPadding == 1

----------------------------------------------------------------------------
(* JSON values *)

\* a field that is absent from an object
Undefined == "undefined"

\* all sequences over S of length 0..n
RECURSIVE SeqsUpTo(_, _)
SeqsUpTo(S, n) ==
    IF n = 0 THEN {<<>>}
    ELSE LET shorter == SeqsUpTo(S, n - 1)
         IN  shorter \cup {Append(s, x) : s \in {t \in shorter : Len(t) = n - 1}, x \in S}

\* z.string(): the field is present (every present field of the model's
\* candidates that the schemas type as string is a string)
IsString(v) == v # Undefined

\* scenarioSchema: id, title and summary are required strings
scenarioSchema(s) == IsString(s.id) /\ IsString(s.title) /\ IsString(s.summary)

\* a JSON number: whole, or whole + 1/2; NoNum is an absent number field
Num(n) == [kind |-> "number", whole |-> n, half |-> FALSE]
NumHalf(n) == [kind |-> "number", whole |-> n, half |-> TRUE]
NoNum == [kind |-> "undefined", whole |-> 0, half |-> FALSE]
\* z.number(), .min(n), .max(n), .int()
IsNumber(x) == x.kind = "number"
NumMin(x, n) == x.whole >= n
NumMax(x, n) == x.whole < n \/ (x.whole = n /\ ~x.half)
NumInt(x) == ~x.half

\* JavaScript truthiness of an optional string: undefined and "" are falsy
Truthy(v) == v # Undefined /\ v # ""

----------------------------------------------------------------------------
(* The image-generation endpoint: inputs *)

ScenarioA == [id |-> "a", title |-> "Title a", summary |-> "Summary a"]
ScenarioB == [id |-> "b", title |-> "Title b", summary |-> "Summary b"]
\* an object that is no scenario: its title is missing
ScenarioNoTitle == [id |-> "a", title |-> Undefined, summary |-> "Summary a"]
ScenarioPool == {ScenarioA, ScenarioB}

\* defaultSettings of the page; optional booleans are "true", "false" or absent
defaultSettings ==
    [focusOnProduct |-> Num(3), shots |-> Num(6), visualStyle |-> "Natural",
     tone |-> "Playful", orientation |-> "Square (1:1)", quality |-> "Standard",
     addMotion |-> "false", retouchProduct |-> "true", includeCaptions |-> "false"]

\* settings the page can be brought to: focus 5, the Cinematic tone, motion
\* and captions on, the retouch toggle absent
CinematicSettings ==
    [defaultSettings EXCEPT !.focusOnProduct = Num(5), !.tone = "Cinematic",
                            !.addMotion = "true", !.retouchProduct = Undefined,
                            !.includeCaptions = "true"]

IsOptBool(v) == v \in {"true", "false", Undefined}

generationSettingsSchema(s) ==
    /\ IsNumber(s.focusOnProduct) /\ NumMin(s.focusOnProduct, 1) /\ NumMax(s.focusOnProduct, 5)
    /\ IsNumber(s.shots) /\ NumMin(s.shots, 1) /\ NumMax(s.shots, 12)
    /\ IsString(s.visualStyle) /\ IsString(s.tone)
    /\ IsString(s.orientation) /\ IsString(s.quality)
    /\ IsOptBool(s.addMotion) /\ IsOptBool(s.retouchProduct) /\ IsOptBool(s.includeCaptions)

\* z.string().min(10) of productImage.data
MinImageData == 10

GoodImage == [data |-> "iVBORw0KGgoAAAANSUhEUg", mimeType |-> "image/jpeg"]

\* a body that is not JSON: req.json() rejects
NonJsonBody == [json |-> FALSE]

BaseBody ==
    [json |-> TRUE, threadId |-> "thread_1", productName |-> "Bottle",
     productImage |-> GoodImage, scenarios |-> <<ScenarioA>>,
     settings |-> defaultSettings]

\* the request bodies the model sends: every scenarios array over the pool
\* up to MaxScenarios with and without a thread id, bodies with other
\* settings (toggles on, off and absent, numbers at and beyond the ends of
\* their ranges or fractional), and the base body with one field spoilt at
\* a time
GenerateBodies ==
    {[BaseBody EXCEPT !.scenarios = s, !.threadId = t] :
        s \in SeqsUpTo(ScenarioPool, MaxScenarios), t \in {"thread_1", Undefined}}
    \cup {[BaseBody EXCEPT !.productImage.data = "iVBOR"],
          [BaseBody EXCEPT !.productImage.mimeType = Undefined],
          [BaseBody EXCEPT !.scenarios = <<ScenarioA, ScenarioNoTitle>>],
          [BaseBody EXCEPT !.settings.focusOnProduct = Num(0)],
          [BaseBody EXCEPT !.settings.focusOnProduct = Num(6)],
          [BaseBody EXCEPT !.settings.focusOnProduct = NumHalf(2)],
          [BaseBody EXCEPT !.settings.shots = Num(13)],
          [BaseBody EXCEPT !.settings.shots = NumHalf(11)],
          [BaseBody EXCEPT !.settings.shots = Num(12), !.settings.focusOnProduct = Num(1)],
          [BaseBody EXCEPT !.settings = CinematicSettings,
                           !.scenarios = <<ScenarioA, ScenarioB>>],
          [BaseBody EXCEPT !.settings.addMotion = Undefined,
                           !.settings.retouchProduct = "false"],
          [BaseBody EXCEPT !.settings.shots = NoNum,
                           !.productImage.data = ""],
          NonJsonBody}

\* requestSchema.safeParse: the top-level fields with an issue, the keys of
\* error.flatten().fieldErrors; the parse succeeds iff there is none
requestSchema(b) ==
    {f \in {"productImage", "scenarios", "settings"} :
        \/ f = "productImage" /\ ~(/\ IsString(b.productImage.data)
                                    /\ Len(b.productImage.data) >= MinImageData)
        \/ f = "scenarios" /\ ~(/\ Len(b.scenarios) >= 1
                                 /\ \A k \in 1..Len(b.scenarios) : scenarioSchema(b.scenarios[k]))
        \/ f = "settings" /\ ~generationSettingsSchema(b.settings)}

\* payload.data: the parsed body, with the mimeType default applied
requestData(b) ==
    [b EXCEPT !.productImage.mimeType = IF @ = Undefined THEN "image/png" ELSE @]

DEFAULT_MODEL == "gemini-2.5-flash-nano-banana"

\* buildPrompt without the lines of the toggles
buildPromptNoToggles(scenario, productName, settings) ==
    [productName |-> IF productName = Undefined THEN "the featured product" ELSE productName,
     title |-> scenario.title,
     summary |-> scenario.summary,
     notes |-> <<"Tone: " \o settings.tone,
                 "Visual style: " \o settings.visualStyle,
                 "Orientation: " \o settings.orientation,
                 "Quality: " \o settings.quality,
                 "Focus level (1-5): " \o ToString(settings.focusOnProduct.whole)
                     \o (IF settings.focusOnProduct.half THEN ".5" ELSE "")>>]

buildPrompt(scenario, productName, settings) ==
    [productName |-> IF productName = Undefined THEN "the featured product" ELSE productName,
     title |-> scenario.title,
     summary |-> scenario.summary,
     notes |-> <<"Tone: " \o settings.tone,
                 "Visual style: " \o settings.visualStyle,
                 "Orientation: " \o settings.orientation,
                 "Quality: " \o settings.quality,
                 "Focus level (1-5): " \o ToString(settings.focusOnProduct.whole)
                     \o (IF settings.focusOnProduct.half THEN ".5" ELSE "")>>
               \o (IF settings.addMotion = "true"
                   THEN <<"Add subtle motion-friendly composition cues">> ELSE <<>>)
               \o (IF settings.retouchProduct = "true"
                   THEN <<"Ensure the product looks polished and retouched">> ELSE <<>>)
               \o (IF settings.includeCaptions = "true"
                   THEN <<"Include natural caption overlay space in the composition">> ELSE <<>>)]

\* the fetch of the loop body: what is sent to the provider for one scenario
GeminiRequest(data, scenario) ==
    [model |-> DEFAULT_MODEL,
     prompt |-> buildPrompt(scenario, data.productName, data.settings),
     inlineData |-> data.productImage]

----------------------------------------------------------------------------
(* The image provider's answers *)

TextPart == [hasInline |-> FALSE, data |-> "", mimeType |-> ""]
ImagePart1 == [hasInline |-> TRUE, data |-> "png-bytes-1", mimeType |-> "image/png"]
ImagePart2 == [hasInline |-> TRUE, data |-> "png-bytes-2", mimeType |-> "image/webp"]
\* inlineData without a mimeType
PartNoMime == [hasInline |-> TRUE, data |-> "png-bytes-1", mimeType |-> ""]

\* the candidates arrays of the JSON bodies the provider may send
GeminiCandidates ==
    { <<>>,
      <<[parts |-> <<TextPart>>]>>,
      <<[parts |-> <<TextPart, ImagePart1>>]>>,
      <<[parts |-> <<ImagePart2>>]>>,
      <<[parts |-> <<PartNoMime, ImagePart1>>]>>,
      <<[parts |-> <<TextPart>>], [parts |-> <<ImagePart1>>]>> }

\* how one fetch settles: it rejects, answers a non-success status with an
\* error body, answers 200 with a body that is no JSON, or 200 with JSON
GeminiOutcomes ==
    {[kind |-> "reject"], [kind |-> "notjson"]}
    \cup {[kind |-> "status", status |-> s, text |-> "quota exceeded for key AIza..."] :
            s \in {429, 500}}
    \cup {[kind |-> "json", candidates |-> c] : c \in GeminiCandidates}

\* candidate?.content?.parts?.find((item) => item.inlineData) of candidates[0]:
\* a sequence holding the first part with inlineData, or the empty sequence
FindInlinePart(candidates) ==
    IF candidates = <<>> THEN <<>>
    ELSE LET parts == candidates[1].parts
             hits == {k \in 1..Len(parts) : parts[k].hasInline}
         IN  IF hits = {} THEN <<>>
             ELSE <<parts[CHOOSE k \in hits : \A j \in hits : k <= j]>>

\* !part?.inlineData?.data || !part?.inlineData?.mimeType is false
HasImage(candidates) ==
    LET found == FindInlinePart(candidates)
    IN  found # <<>> /\ Truthy(found[1].data) /\ Truthy(found[1].mimeType)

----------------------------------------------------------------------------
(* The datastore client and its cache *)

\* createClient(url, key) throws on a URL that is no HTTP(S) URL
createClientThrows(e) == e.SUPABASE_URL = "malformed"

\* getSupabaseServerClient without the check of the service-role key
getSupabaseServerClientNoKeyCheck(e, cache) ==
    IF e.SUPABASE_URL = "unset"
    THEN [ret |-> "null", cache |-> cache, created |-> 0]
    ELSE IF cache = "null"
         THEN IF createClientThrows(e)
              THEN [ret |-> "throws", cache |-> cache, created |-> 0]
              ELSE [ret |-> "client", cache |-> "client", created |-> 1]
         ELSE [ret |-> cache, cache |-> cache, created |-> 0]

\* getSupabaseServerClient constructing a client at every call
getSupabaseServerClientNoCache(e, cache) ==
    IF e.SUPABASE_URL = "unset" \/ ~e.SUPABASE_SERVICE_ROLE_KEY
    THEN [ret |-> "null", cache |-> cache, created |-> 0]
    ELSE IF createClientThrows(e)
         THEN [ret |-> "throws", cache |-> cache, created |-> 0]
         ELSE [ret |-> "client", cache |-> "client", created |-> 1]

\* getSupabaseServerClient(): what it returns ("null", "client", or "throws"
\* when createClient throws) and the cache after the call
getSupabaseServerClient(e, cache) ==
    IF e.SUPABASE_URL = "unset" \/ ~e.SUPABASE_SERVICE_ROLE_KEY
    THEN [ret |-> "null", cache |-> cache, created |-> 0]
    ELSE IF cache = "null"
         THEN IF createClientThrows(e)
              THEN [ret |-> "throws", cache |-> cache, created |-> 0]
              ELSE [ret |-> "client", cache |-> "client", created |-> 1]
         ELSE [ret |-> cache, cache |-> cache, created |-> 0]

\* how supabase.from(...).insert(rows) settles: { error: null }, { error },
\* or a rejected promise
InsertOutcomes == {"ok", "error", "reject"}

\* one metadata row per result
InsertRows(data, res) ==
    [k \in 1..Len(res) |->
        [thread_id |-> IF data.threadId = Undefined THEN "null" ELSE data.threadId,
         scenario_id |-> res[k].scenario.id,
         scenario_title |-> res[k].scenario.title,
         scenario_summary |-> res[k].scenario.summary,
         settings |-> data.settings,
         created_at |-> "now"]]

----------------------------------------------------------------------------
(* The image-generation endpoint: responses *)

NoResponse == [status |-> 0, error |-> "", details |-> {}, images |-> <<>>]

MissingKeyError == "Missing GOOGLE_GEMINI_API_KEY environment variable."
InvalidPayloadError == "Invalid generate payload"
GenerationFailedError == "Image generation failed. Please try again with a different concept."

\* NextResponse.json(body, { status })
ErrorResponse(status, error, details) ==
    [status |-> status, error |-> error, details |-> details, images |-> <<>>]

\* NextResponse.json({ images: results.map(...) })
ImagesResponse(res) ==
    [status |-> 200, error |-> "", details |-> {},
     images |-> [k \in 1..Len(res) |->
                    [mimeType |-> res[k].mimeType, data |-> res[k].data,
                     scenario |-> res[k].scenario]]]

\* the catch block: console.error and the generic 500
CatchLog(message, detail) == [level |-> "error", message |-> message, detail |-> detail]

----------------------------------------------------------------------------
(* The image-generation endpoint: POST *)

\* the handler returns resp
GRespond(h, resp) ==
    /\ gresponse' = [gresponse EXCEPT ![h] = resp]
    /\ gpc' = [gpc EXCEPT ![h] = "done"]

\* GCatch answering with the message of what was thrown
GCatchMessage(h, message, detail) ==
    /\ glog' = [glog EXCEPT ![h] = Append(@, CatchLog(message, detail))]
    /\ GRespond(h, ErrorResponse(500, message, {}))

\* a throw inside the try block: the catch logs it and answers the generic 500
GCatch(h, message, detail) ==
    /\ glog' = [glog EXCEPT ![h] = Append(@, CatchLog(message, detail))]
    /\ GRespond(h, ErrorResponse(500, GenerationFailedError, {}))

\* results.push({ mimeType, data, scenario })
PushResult(res, part, scenario) ==
    Append(res, [mimeType |-> part.mimeType, data |-> part.data, scenario |-> scenario])

\* GReceive without the API key check
GReceiveNoKeyCheck(h) ==
    /\ gpc[h] \in {"idle", "done", "threw"}
    /\ \E b \in GenerateBodies :
        /\ gbody' = [gbody EXCEPT ![h] = b]
        /\ gidx' = [gidx EXCEPT ![h] = 0]
        /\ results' = [results EXCEPT ![h] = <<>>]
        /\ gfetches' = [gfetches EXCEPT ![h] = <<>>]
        /\ gsettled' = [gsettled EXCEPT ![h] = <<>>]
        /\ ginserts' = [ginserts EXCEPT ![h] = <<>>]
        /\ glog' = [glog EXCEPT ![h] = <<>>]
        /\ gpc' = [gpc EXCEPT ![h] = "readBody"]
        /\ gresponse' = [gresponse EXCEPT ![h] = NoResponse]
    /\ UNCHANGED <<env, cachedClient, createCount>>

\* a request arrives: the API key check, then await req.json()
GReceive(h) ==
    /\ gpc[h] \in {"idle", "done", "threw"}
    /\ \E b \in GenerateBodies :
        /\ gbody' = [gbody EXCEPT ![h] = b]
        /\ gidx' = [gidx EXCEPT ![h] = 0]
        /\ results' = [results EXCEPT ![h] = <<>>]
        /\ gfetches' = [gfetches EXCEPT ![h] = <<>>]
        /\ gsettled' = [gsettled EXCEPT ![h] = <<>>]
        /\ ginserts' = [ginserts EXCEPT ![h] = <<>>]
        /\ glog' = [glog EXCEPT ![h] = <<>>]
        /\ IF ~env.GOOGLE_GEMINI_API_KEY
           THEN GRespond(h, ErrorResponse(500, MissingKeyError, {}))
           ELSE /\ gpc' = [gpc EXCEPT ![h] = "readBody"]
                /\ gresponse' = [gresponse EXCEPT ![h] = NoResponse]
    /\ UNCHANGED <<env, cachedClient, createCount>>

\* GReadBody issuing the fetches of all scenarios at once
GReadBodyAllAtOnce(h) ==
    /\ gpc[h] = "readBody"
    /\ IF ~gbody[h].json
       THEN /\ gpc' = [gpc EXCEPT ![h] = "threw"]
            /\ UNCHANGED <<gresponse, gidx, gfetches>>
       ELSE IF requestSchema(gbody[h]) # {}
       THEN /\ GRespond(h, ErrorResponse(400, InvalidPayloadError, requestSchema(gbody[h])))
            /\ UNCHANGED <<gidx, gfetches>>
       ELSE LET data == requestData(gbody[h])
            IN  /\ gidx' = [gidx EXCEPT ![h] = 1]
                /\ gfetches' = [gfetches EXCEPT ![h] =
                                  [k \in 1..Len(data.scenarios) |->
                                      GeminiRequest(data, data.scenarios[k])]]
                /\ gpc' = [gpc EXCEPT ![h] = "awaitFetch"]
                /\ UNCHANGED gresponse
    /\ UNCHANGED <<env, cachedClient, createCount, gbody, results, gsettled, ginserts, glog>>

\* req.json() settles: safeParse, the 400, or the first fetch of the loop.
\* A body that is no JSON makes req.json() reject outside the try block: the
\* handler itself throws and returns no response.
GReadBody(h) ==
    /\ gpc[h] = "readBody"
    /\ IF ~gbody[h].json
       THEN /\ gpc' = [gpc EXCEPT ![h] = "threw"]
            /\ UNCHANGED <<gresponse, gidx, gfetches>>
       ELSE IF requestSchema(gbody[h]) # {}
       THEN /\ GRespond(h, ErrorResponse(400, InvalidPayloadError, requestSchema(gbody[h])))
            /\ UNCHANGED <<gidx, gfetches>>
       ELSE LET data == requestData(gbody[h])
            IN  /\ gidx' = [gidx EXCEPT ![h] = 1]
                /\ gfetches' = [gfetches EXCEPT ![h] =
                                  Append(@, GeminiRequest(data, data.scenarios[1]))]
                /\ gpc' = [gpc EXCEPT ![h] = "awaitFetch"]
                /\ UNCHANGED gresponse
    /\ UNCHANGED <<env, cachedClient, createCount, gbody, results, gsettled, ginserts, glog>>

\* after the loop: getSupabaseServerClient(), the insert if there is a client,
\* else the success response
GPersist(h, res) ==
    LET got == getSupabaseServerClient(env, cachedClient)
        data == requestData(gbody[h])
    IN  /\ cachedClient' = got.cache
        /\ createCount' = createCount + got.created
        /\ IF got.ret = "throws"
           THEN /\ GCatch(h, "Invalid supabaseUrl", "")
                /\ UNCHANGED ginserts
           ELSE IF got.ret = "null"
           THEN /\ GRespond(h, ImagesResponse(res))
                /\ UNCHANGED <<ginserts, glog>>
           ELSE /\ ginserts' = [ginserts EXCEPT ![h] = Append(@, InsertRows(data, res))]
                /\ gpc' = [gpc EXCEPT ![h] = "awaitInsert"]
                /\ UNCHANGED <<gresponse, glog>>

\* the provider's answer is accepted: push the result, then the next fetch or
\* the persistence step
GAccept(h, candidates) ==
    LET data == requestData(gbody[h])
        part == FindInlinePart(candidates)[1]
        res == PushResult(results[h], part, data.scenarios[gidx[h]])
    IN  /\ results' = [results EXCEPT ![h] = res]
        /\ IF gidx[h] < Len(data.scenarios)
           THEN /\ gidx' = [gidx EXCEPT ![h] = @ + 1]
                /\ gfetches' = [gfetches EXCEPT ![h] =
                                  Append(@, GeminiRequest(data, data.scenarios[gidx[h] + 1]))]
                /\ UNCHANGED <<gpc, gresponse, glog, ginserts, cachedClient, createCount>>
           ELSE /\ GPersist(h, res)
                /\ UNCHANGED <<gidx, gfetches>>

\* GRefuse answering with the images rendered so far instead of the 500
GRefusePartial(h, o) ==
    /\ glog' = [glog EXCEPT ![h] = Append(@, CatchLog("partial", ""))]
    /\ GRespond(h, ImagesResponse(results[h]))
    /\ UNCHANGED <<results, gidx, gfetches, ginserts, cachedClient, createCount>>

\* the provider's answer is refused: the throw of lines 134-145, or the
\* rejection of fetch or of response.json()
GRefuse(h, o) ==
    /\ CASE o.kind = "reject" -> GCatch(h, "fetch failed", "")
         [] o.kind = "notjson" -> GCatch(h, "Unexpected token in JSON", "")
         [] o.kind = "status" ->
                GCatch(h, "Gemini image generation failed: " \o ToString(o.status), o.text)
         [] OTHER -> GCatch(h, "Gemini response did not include image data", "")
    /\ UNCHANGED <<results, gidx, gfetches, ginserts, cachedClient, createCount>>

\* the pending fetch settles (its body is read in the same step)
GFetchSettles(h) ==
    /\ gpc[h] = "awaitFetch"
    /\ \E o \in GeminiOutcomes :
        LET accepted == o.kind = "json" /\ HasImage(o.candidates)
        IN  /\ gsettled' = [gsettled EXCEPT ![h] = Append(@, accepted)]
            /\ IF accepted THEN GAccept(h, o.candidates) ELSE GRefuse(h, o)
    /\ UNCHANGED <<env, gbody>>

\* the pending insert settles: an error is logged with console.warn, a
\* rejection is a throw inside the try block
GInsertSettles(h) ==
    /\ gpc[h] = "awaitInsert"
    /\ \E o \in InsertOutcomes :
        CASE o = "ok" -> GRespond(h, ImagesResponse(results[h])) /\ UNCHANGED glog
          [] o = "error" ->
                /\ GRespond(h, ImagesResponse(results[h]))
                /\ glog' = [glog EXCEPT ![h] = Append(@,
                      [level |-> "warn",
                       message |-> "Failed to persist generation metadata in Supabase",
                       detail |-> "insert error"])]
          [] OTHER -> GCatch(h, "insert rejected", "")
    /\ UNCHANGED <<env, cachedClient, createCount, gbody, gidx, results, gfetches,
                   gsettled, ginserts>>

\* the environments of the image endpoint (the assistant's variables are set)
GenerateEnvs ==
    [GOOGLE_GEMINI_API_KEY : BOOLEAN,
     SUPABASE_URL : {"unset", "valid", "malformed"},
     SUPABASE_SERVICE_ROLE_KEY : BOOLEAN,
     OPENAI_API_KEY : {TRUE},
     OPENAI_ASSISTANT_ID : {TRUE}]

\* no image request has arrived, the client cache is empty
GInit ==
    /\ cachedClient = "null"
    /\ createCount = 0
    /\ gpc = [h \in Handlers |-> "idle"]
    /\ gbody = [h \in Handlers |-> NonJsonBody]
    /\ gidx = [h \in Handlers |-> 0]
    /\ results = [h \in Handlers |-> <<>>]
    /\ gfetches = [h \in Handlers |-> <<>>]
    /\ gsettled = [h \in Handlers |-> <<>>]
    /\ ginserts = [h \in Handlers |-> <<>>]
    /\ gresponse = [h \in Handlers |-> NoResponse]
    /\ glog = [h \in Handlers |-> <<>>]

----------------------------------------------------------------------------
(* The scenario generator: inputs *)

\* scenarioRequestSchema's default(6) and default(3)
DefaultShots == 6
DefaultFocus == 3

ScenarioBaseBody ==
    [json |-> TRUE, threadId |-> "thread_1", audience |-> "Trail runners",
     productDetails |-> "Insulated steel bottle", productName |-> "Bottle",
     niche |-> Undefined, tone |-> "Playful", visualStyle |-> Undefined,
     shots |-> NoNum, focusOnProduct |-> NoNum, additionalNotes |-> <<>>]

\* the request bodies the model sends: the base body (shots and focus
\* omitted), bodies with shots and focus at and beyond the ends of their
\* ranges or fractional, a thread the provider does not know, bodies with
\* required fields missing or empty, and a body that is no JSON
ScenarioBodies ==
    {[ScenarioBaseBody EXCEPT !.shots = n] :
        n \in {NoNum, Num(0), Num(1), Num(12), Num(13), NumHalf(2)}}
    \cup {[ScenarioBaseBody EXCEPT !.focusOnProduct = n] :
        n \in {Num(0), Num(1), Num(5), Num(6), NumHalf(2)}}
    \cup {[ScenarioBaseBody EXCEPT !.threadId = "thread_unknown"],
          [ScenarioBaseBody EXCEPT !.threadId = Undefined],
          [ScenarioBaseBody EXCEPT !.audience = ""],
          [ScenarioBaseBody EXCEPT !.audience = Undefined],
          [ScenarioBaseBody EXCEPT !.productDetails = ""],
          [ScenarioBaseBody EXCEPT !.productDetails = Undefined],
          [ScenarioBaseBody EXCEPT !.threadId = Undefined, !.audience = "",
                                   !.shots = Num(13)],
          NonJsonBody}

\* z.string().min(1)
NonEmptyString(v) == IsString(v) /\ v # ""

\* IntInRangeOrAbsent without the .max(hi)
IntAtLeastOrAbsent(x, lo, hi) ==
    ~IsNumber(x) \/ (NumInt(x) /\ NumMin(x, lo))

\* z.number().int().min(lo).max(hi).default(d): an absent field passes
IntInRangeOrAbsent(x, lo, hi) ==
    ~IsNumber(x) \/ (NumInt(x) /\ NumMin(x, lo) /\ NumMax(x, hi))

\* scenarioRequestSchema with audience a plain z.string().optional()
scenarioRequestSchemaAnyAudience(b) ==
    {f \in {"threadId", "productDetails", "shots", "focusOnProduct"} :
        \/ f = "threadId" /\ ~IsString(b.threadId)
        \/ f = "productDetails" /\ ~NonEmptyString(b.productDetails)
        \/ f = "shots" /\ ~IntInRangeOrAbsent(b.shots, 1, 12)
        \/ f = "focusOnProduct" /\ ~IntInRangeOrAbsent(b.focusOnProduct, 1, 5)}

\* scenarioRequestSchema.safeParse: the fields with an issue, the keys of
\* error.flatten().fieldErrors; the parse succeeds iff there is none
scenarioRequestSchema(b) ==
    {f \in {"threadId", "audience", "productDetails", "shots", "focusOnProduct"} :
        \/ f = "threadId" /\ ~IsString(b.threadId)
        \/ f = "audience" /\ ~NonEmptyString(b.audience)
        \/ f = "productDetails" /\ ~NonEmptyString(b.productDetails)
        \/ f = "shots" /\ ~IntInRangeOrAbsent(b.shots, 1, 12)
        \/ f = "focusOnProduct" /\ ~IntInRangeOrAbsent(b.focusOnProduct, 1, 5)}

\* parsed.data: the parsed body, with the defaults applied
scenarioRequestData(b) ==
    [b EXCEPT !.shots = IF IsNumber(@) THEN @ ELSE Num(DefaultShots),
              !.focusOnProduct = IF IsNumber(@) THEN @ ELSE Num(DefaultFocus)]

\* what contextPrompt embeds of the parsed body
contextPrompt(data) ==
    [productName |-> IF data.productName = Undefined THEN "Unknown" ELSE data.productName,
     niche |-> IF data.niche = Undefined THEN "Not provided" ELSE data.niche,
     audience |-> data.audience,
     productDetails |-> data.productDetails,
     tone |-> IF data.tone = Undefined THEN "Not specified" ELSE data.tone,
     visualStyle |-> IF data.visualStyle = Undefined THEN "Not specified" ELSE data.visualStyle,
     shots |-> data.shots,
     focusOnProduct |-> data.focusOnProduct,
     additionalNotes |-> data.additionalNotes]

----------------------------------------------------------------------------
(* Texts: a text is a sequence of tokens.  "FENCE" is a run of three backticks,
   "json" the word json, " " and "\n" white space; a JSON document is one
   token, named by its source text; any other token is prose. *)

Whitespace == {" ", "\n"}

\* the value of each JSON document: whether it is an object with a
\* scenarios field, and that field
JsonDocs ==
    [d \in {"{scenarios:[a,b]}", "{scenarios:[a]}", "{scenarios:[a,a]}",
            "{scenarios:[]}", "{scenarios:[{id,summary}]}", "{}"} |->
        CASE d = "{scenarios:[a,b]}" -> [hasScenarios |-> TRUE, scenarios |-> <<ScenarioA, ScenarioB>>]
          [] d = "{scenarios:[a]}" -> [hasScenarios |-> TRUE, scenarios |-> <<ScenarioA>>]
          [] d = "{scenarios:[a,a]}" -> [hasScenarios |-> TRUE, scenarios |-> <<ScenarioA, ScenarioA>>]
          [] d = "{scenarios:[]}" -> [hasScenarios |-> TRUE, scenarios |-> <<>>]
          [] d = "{scenarios:[{id,summary}]}" ->
                [hasScenarios |-> TRUE, scenarios |-> <<ScenarioNoTitle>>]
          [] OTHER -> [hasScenarios |-> FALSE, scenarios |-> <<>>]]

\* StripFenceJson replacing nothing
StripFenceJsonNothing(t) == t

\* raw.replace(/FENCEjson/g, ""), FENCE being three backticks
RECURSIVE StripFenceJson(_)
StripFenceJson(t) ==
    IF t = <<>> THEN <<>>
    ELSE IF Len(t) >= 2 /\ t[1] = "FENCE" /\ t[2] = "json"
         THEN StripFenceJson(SubSeq(t, 3, Len(t)))
         ELSE <<t[1]>> \o StripFenceJson(Tail(t))

\* .replace(/FENCE/g, "")
StripFence(t) == SelectSeq(t, LAMBDA x : x # "FENCE")

\* .trim()
RECURSIVE TrimLeft(_)
TrimLeft(t) ==
    IF t # <<>> /\ t[1] \in Whitespace THEN TrimLeft(Tail(t)) ELSE t
RECURSIVE TrimRight(_)
TrimRight(t) ==
    IF t # <<>> /\ t[Len(t)] \in Whitespace THEN TrimRight(SubSeq(t, 1, Len(t) - 1)) ELSE t
Trim(t) == TrimRight(TrimLeft(t))

sanitizeResponse(raw) == Trim(StripFence(StripFenceJson(raw)))

\* JSON.parse: white space around the one document is allowed; anything else
\* is a SyntaxError
JSONparse(t) ==
    LET core == Trim(t)
    IN  IF Len(core) = 1 /\ core[1] \in DOMAIN JsonDocs
        THEN [ok |-> TRUE, value |-> JsonDocs[core[1]]]
        ELSE [ok |-> FALSE, value |-> JsonDocs["{}"]]

\* scenarioResponseSchema without the .min(1)
scenarioResponseSchemaNoMin(v) ==
    /\ v.hasScenarios
    /\ \A k \in 1..Len(v.scenarios) : scenarioSchema(v.scenarios[k])

\* scenarioResponseSchema: an object whose scenarios is an array of at least
\* one scenario
scenarioResponseSchema(v) ==
    /\ v.hasScenarios
    /\ Len(v.scenarios) >= 1
    /\ \A k \in 1..Len(v.scenarios) : scenarioSchema(v.scenarios[k])

----------------------------------------------------------------------------
(* The assistant provider *)

TextContent(t) == [type |-> "text", text |-> t]
ImageFileContent == [type |-> "image_file", text |-> <<>>]

\* the content of the assistant message a completed run may leave
AssistantContents ==
    { <<TextContent(<<"{scenarios:[a,b]}">>)>>,
      <<TextContent(<<"FENCE", "json", "\n", "{scenarios:[a]}", "\n", "FENCE">>)>>,
      <<TextContent(<<"Here are six ideas:", "\n", "FENCE", "json", "{scenarios:[a]}", "FENCE">>)>>,
      <<TextContent(<<"I cannot help with that.">>)>>,
      <<TextContent(<<"{scenarios:[]}">>)>>,
      <<TextContent(<<"{scenarios:[{id,summary}]}">>)>>,
      <<TextContent(<<"{}">>)>>,
      <<TextContent(<<>>)>>,
      <<ImageFileContent>>,
      <<ImageFileContent, TextContent(<<"{scenarios:[a,a]}">>)>> }

\* the documents that are valid scenario batches
BatchDocs == {d \in DOMAIN JsonDocs : scenarioResponseSchema(JsonDocs[d])}

\* document d between code fences, the opening one bare or marked json,
\* with white space around each fence
Padding == SeqsUpTo(Whitespace, MaxPadding)
Fenced(d) ==
    {pre \o <<"FENCE">> \o lang \o in1 \o <<d>> \o in2 \o <<"FENCE">> \o post :
        pre \in Padding, lang \in {<<>>, <<"json">>}, in1 \in Padding,
        in2 \in Padding, post \in Padding}

\* the messages whose one text part is a valid batch, fenced or alone
FencedContents ==
    {<<TextContent(t)>> : t \in UNION {Fenced(d) \cup {<<d>>} : d \in BatchDocs}}

NoBrief ==
    [productName |-> "", niche |-> "", audience |-> "", productDetails |-> "",
     tone |-> "", visualStyle |-> "", shots |-> NoNum, focusOnProduct |-> NoNum,
     additionalNotes |-> <<>>]

UserMessage(brief) == [role |-> "user", brief |-> brief, content |-> <<>>]
AssistantMessage(content) == [role |-> "assistant", brief |-> NoBrief, content |-> content]

\* the statuses createAndPoll returns with
RunStatuses == {"completed", "failed", "cancelled", "expired", "incomplete", "requires_action"}

\* limit of messages.list
ListLimit == 10

\* messages.list(threadId, { order: "desc", limit: 10 }): newest first
ListMessages(msgs) ==
    LET n == IF Len(msgs) < ListLimit THEN Len(msgs) ELSE ListLimit
    IN  [k \in 1..n |-> msgs[Len(msgs) + 1 - k]]

\* the first element of a sequence that satisfies Test, as a sequence of
\* length 1, or the empty sequence: Array.prototype.find
Find(seq, Test(_)) ==
    LET hits == {k \in 1..Len(seq) : Test(seq[k])}
    IN  IF hits = {} THEN <<>>
        ELSE <<seq[CHOOSE k \in hits : \A j \in hits : k <= j]>>

IsAssistant(m) == m.role = "assistant"
IsText(part) == part.type = "text"

\* lines 104-106: the text part of the first assistant message of the list
FindTextPart(list) ==
    LET assistantMessage == Find(list, IsAssistant)
    IN  IF assistantMessage = <<>> THEN <<>>
        ELSE Find(assistantMessage[1].content, IsText)

----------------------------------------------------------------------------
(* The scenario generator: responses *)

NoScenarioResponse ==
    [status |-> 0, error |-> "", details |-> {}, threadId |-> "", scenarios |-> <<>>]

MissingAssistantError ==
    "Missing OPENAI_API_KEY or OPENAI_ASSISTANT_ID. Update your environment variables to enable scenario ideation."
InvalidScenarioPayloadError == "Invalid scenario request payload"
ScenariosFailedError ==
    "Unable to generate scenarios at this time. Please refine your brief and try again."

ScenarioErrorResponse(status, error, details) ==
    [status |-> status, error |-> error, details |-> details, threadId |-> "",
     scenarios |-> <<>>]

\* NextResponse.json({ threadId, ...parsedResponse })
ScenariosResponse(id, parsedResponse) ==
    [status |-> 200, error |-> "", details |-> {}, threadId |-> id,
     scenarios |-> parsedResponse.scenarios]

----------------------------------------------------------------------------
(* The scenario generator: POST *)

NoRaw == [found |-> FALSE, text |-> <<>>]

SRespond(resp) ==
    /\ sresponse' = resp
    /\ spc' = "done"

\* the catch block: console.error and the generic 500
SCatch(message, detail) ==
    /\ slog' = Append(slog, CatchLog(message, detail))
    /\ SRespond(ScenarioErrorResponse(500, ScenariosFailedError, {}))

\* a request arrives: the check of the two assistant variables, then
\* await req.json()
SReceive ==
    /\ spc \in {"idle", "done", "threw"}
    /\ sserved < MaxRequests
    /\ sserved' = sserved + 1
    /\ sarrival' = Len(thread)
    /\ \E b \in ScenarioBodies : sbody' = b
    /\ sposts' = 0
    /\ sruns' = <<>>
    /\ slists' = 0
    /\ sraw' = NoRaw
    /\ slog' = <<>>
    /\ IF ~env.OPENAI_API_KEY \/ ~env.OPENAI_ASSISTANT_ID
       THEN SRespond(ScenarioErrorResponse(500, MissingAssistantError, {}))
       ELSE /\ spc' = "readBody"
            /\ sresponse' = NoScenarioResponse
    /\ UNCHANGED <<env, thread>>

\* req.json() settles: safeParse, the 400, or the brief is posted.  A body
\* that is no JSON makes req.json() reject outside the try block.
SReadBody ==
    /\ spc = "readBody"
    /\ IF ~sbody.json
       THEN /\ spc' = "threw"
            /\ UNCHANGED <<sresponse, sposts>>
       ELSE IF scenarioRequestSchema(sbody) # {}
       THEN /\ SRespond(ScenarioErrorResponse(400, InvalidScenarioPayloadError,
                                              scenarioRequestSchema(sbody)))
            /\ UNCHANGED sposts
       ELSE /\ sposts' = sposts + 1
            /\ spc' = "awaitMessage"
            /\ UNCHANGED sresponse
    /\ UNCHANGED <<env, thread, sbody, sserved, sarrival, sruns, slists, sraw, slog>>

\* messages.create settles: the brief is on the thread and the run is
\* started, or the call rejected (always so for a thread the provider does
\* not know)
SMessageSettles ==
    /\ spc = "awaitMessage"
    /\ \E ok \in BOOLEAN :
        IF ok /\ scenarioRequestData(sbody).threadId = "thread_1"
        THEN /\ thread' = Append(thread, UserMessage(contextPrompt(scenarioRequestData(sbody))))
             /\ spc' = "awaitRun"
             /\ UNCHANGED <<sresponse, slog>>
        ELSE /\ SCatch("messages.create rejected", "")
             /\ UNCHANGED thread
    /\ UNCHANGED <<env, sbody, sserved, sarrival, sposts, sruns, slists, sraw>>

\* RunCompleted taking every terminal status for a completed run
RunCompletedAny(status) == status \in RunStatuses

\* line 95
RunCompleted(status) == status = "completed"

\* createAndPoll settles with a terminal status (a completed run may have left
\* an assistant message on the thread, its content one of contents), or rejects
SRunSettlesWith(contents) ==
    /\ spc = "awaitRun"
    /\ \/ /\ SCatch("runs.createAndPoll rejected", "")
          /\ UNCHANGED <<thread, sruns, slists>>
       \/ \E status \in RunStatuses :
            /\ sruns' = Append(sruns, status)
            /\ \/ /\ status = "completed"
                  /\ \E c \in contents : thread' = Append(thread, AssistantMessage(c))
               \/ UNCHANGED thread
            /\ IF RunCompleted(status)
               THEN /\ slists' = slists + 1
                    /\ spc' = "awaitList"
                    /\ UNCHANGED <<sresponse, slog>>
               ELSE /\ SCatch("Assistant run finished with status " \o status, "")
                    /\ UNCHANGED slists
    /\ UNCHANGED <<env, sbody, sserved, sarrival, sposts, sraw>>

SRunSettles == SRunSettlesWith(AssistantContents)

\* lines 112-116: sanitize, JSON.parse, scenarioResponseSchema.parse, respond
SParse(raw) ==
    LET clean == sanitizeResponse(raw)
        parsed == JSONparse(clean)
    IN  IF ~parsed.ok
        THEN SCatch("SyntaxError: Unexpected token", raw)
        ELSE IF ~scenarioResponseSchema(parsed.value)
        THEN SCatch("ZodError", raw)
        ELSE /\ SRespond(ScenariosResponse(scenarioRequestData(sbody).threadId, parsed.value))
             /\ UNCHANGED slog

\* messages.list settles: the first assistant message of the list, its text
\* part, then the parse
SListSettles ==
    /\ spc = "awaitList"
    /\ \/ /\ SCatch("messages.list rejected", "")
          /\ UNCHANGED sraw
       \/ LET textPart == FindTextPart(ListMessages(thread))
          IN  IF textPart = <<>>
              THEN /\ SCatch("Assistant response did not contain text content", "")
                   /\ UNCHANGED sraw
              ELSE /\ sraw' = [found |-> TRUE, text |-> textPart[1].text]
                   /\ SParse(textPart[1].text)
    /\ UNCHANGED <<env, thread, sbody, sserved, sarrival, sposts, sruns, slists>>

\* the environments of the scenario generator
ScenarioEnvs ==
    [GOOGLE_GEMINI_API_KEY : {TRUE},
     SUPABASE_URL : {"unset"},
     SUPABASE_SERVICE_ROLE_KEY : {FALSE},
     OPENAI_API_KEY : BOOLEAN,
     OPENAI_ASSISTANT_ID : BOOLEAN]

\* no scenario request has arrived, the thread is new
SInit ==
    /\ thread = <<>>
    /\ spc = "idle"
    /\ sbody = NonJsonBody
    /\ sserved = 0
    /\ sarrival = 0
    /\ sposts = 0
    /\ sruns = <<>>
    /\ slists = 0
    /\ sraw = NoRaw
    /\ sresponse = NoScenarioResponse
    /\ slog = <<>>

----------------------------------------------------------------------------
(* The thread initializer: POST /api/openai/thread *)

NoThreadResponse == [status |-> 0, error |-> "", threadId |-> ""]

MissingThreadEnvError ==
    "Missing OPENAI_API_KEY or OPENAI_ASSISTANT_ID. Update your environment variables to enable the assistant workflow."
ThreadFailedError == "Unable to create a new assistant thread. Please try again."

ThreadErrorResponse(status, error) == [status |-> status, error |-> error, threadId |-> ""]

\* NextResponse.json({ threadId: thread.id })
ThreadResponse(id) == [status |-> 200, error |-> "", threadId |-> id]

\* the id of the n-th thread the provider creates
NewThreadId(n) == "thread_" \o ToString(n)

\* how client.beta.threads.create() settles: a thread, or a rejection
ThreadCreateOutcomes ==
    {"ok", "401 Incorrect API key provided: sk-proj-1234", "fetch failed"}

TRespond(h, resp) ==
    /\ tresponse' = [tresponse EXCEPT ![h] = resp]
    /\ tpc' = [tpc EXCEPT ![h] = "done"]

\* a request arrives: the check of the two assistant variables, then
\* threads.create() is called
TReceive(h) ==
    /\ tpc[h] \in {"idle", "done"}
    /\ tserved < MaxThreadRequests
    /\ tserved' = tserved + 1
    /\ tsettled' = [tsettled EXCEPT ![h] = ""]
    /\ tlog' = [tlog EXCEPT ![h] = <<>>]
    /\ IF ~env.OPENAI_API_KEY \/ ~env.OPENAI_ASSISTANT_ID
       THEN /\ TRespond(h, ThreadErrorResponse(500, MissingThreadEnvError))
            /\ tcreates' = [tcreates EXCEPT ![h] = 0]
       ELSE /\ tcreates' = [tcreates EXCEPT ![h] = 1]
            /\ tpc' = [tpc EXCEPT ![h] = "awaitCreate"]
            /\ tresponse' = [tresponse EXCEPT ![h] = NoThreadResponse]
    /\ UNCHANGED <<env, tthreads>>

\* TCreateSettles calling threads.create() a second time after a rejection
TCreateSettlesRetry(h) ==
    /\ tpc[h] = "awaitCreate"
    /\ \E o \in ThreadCreateOutcomes :
        /\ tsettled' = [tsettled EXCEPT ![h] = o]
        /\ IF o = "ok"
           THEN /\ tthreads' = tthreads + 1
                /\ TRespond(h, ThreadResponse(NewThreadId(tthreads + 1)))
                /\ UNCHANGED <<tlog, tcreates>>
           ELSE IF tcreates[h] < 2
           THEN /\ tcreates' = [tcreates EXCEPT ![h] = @ + 1]
                /\ UNCHANGED <<tthreads, tlog, tpc, tresponse>>
           ELSE /\ tlog' = [tlog EXCEPT ![h] =
                              Append(@, CatchLog("Failed to create OpenAI assistant thread", o))]
                /\ TRespond(h, ThreadErrorResponse(500, ThreadFailedError))
                /\ UNCHANGED <<tthreads, tcreates>>
    /\ UNCHANGED <<env, tserved>>

\* threads.create() settles: the success response with the new thread's id,
\* or the catch block: console.error and the generic 500
TCreateSettles(h) ==
    /\ tpc[h] = "awaitCreate"
    /\ \E o \in ThreadCreateOutcomes :
        /\ tsettled' = [tsettled EXCEPT ![h] = o]
        /\ IF o = "ok"
           THEN /\ tthreads' = tthreads + 1
                /\ TRespond(h, ThreadResponse(NewThreadId(tthreads + 1)))
                /\ UNCHANGED tlog
           ELSE /\ tlog' = [tlog EXCEPT ![h] =
                              Append(@, CatchLog("Failed to create OpenAI assistant thread", o))]
                /\ TRespond(h, ThreadErrorResponse(500, ThreadFailedError))
                /\ UNCHANGED tthreads
    /\ UNCHANGED <<env, tserved, tcreates>>

\* no thread request has arrived
TInit ==
    /\ tthreads = 0
    /\ tserved = 0
    /\ tpc = [h \in ThreadHandlers |-> "idle"]
    /\ tcreates = [h \in ThreadHandlers |-> 0]
    /\ tsettled = [h \in ThreadHandlers |-> ""]
    /\ tresponse = [h \in ThreadHandlers |-> NoThreadResponse]
    /\ tlog = [h \in ThreadHandlers |-> <<>>]

----------------------------------------------------------------------------
(* The page (Home).  A step is an event handler up to its first await, or the
   continuation of a handler after an await; React has re-rendered between
   two steps, so a button is enabled as the state of the step's start says.
   A handler reads the state its closure captured when it was called. *)

\* the scenario batches a success response of the scenario generator carries
ResponseBatches ==
    {JsonDocs[d].scenarios : d \in {x \in DOMAIN JsonDocs : scenarioResponseSchema(JsonDocs[x])}}

Ids(batch) == {batch[k].id : k \in 1..Len(batch)}

\* lines 87-94
canRequestScenarios ==
    /\ threadId # ""
    /\ productFile # ""
    /\ productAudience \notin {"", " "}
    /\ productDetails \notin {"", " "}

\* lines 96-98
canGenerateImages ==
    /\ selectedScenarioIds # {}
    /\ productFile # ""
    /\ ~generatingScenarios

\* createThread up to its fetch
createThread ==
    /\ threadFetches < MaxPending
    /\ initialisingThread' = TRUE
    /\ threadError' = ""
    /\ threadFetches' = threadFetches + 1
    /\ UNCHANGED <<threadId, productFile, productAudience, productDetails, scenarios,
                   selectedScenarioIds, generatingScenarios, scenarioError,
                   generatedImages, generatingImages, imageError, scenarioFetches,
                   imageCalls>>

\* a Retry button that is always rendered
ClickRetryAnytime == createThread

\* the Retry button, rendered while threadError is set
ClickRetry ==
    /\ threadError # ""
    /\ createThread

\* the thread fetch settles: the provider has created a thread and
\* setThreadId stores its id, or setThreadError; finally
ThreadSettles ==
    /\ threadFetches > 0
    /\ threadFetches' = threadFetches - 1
    /\ \/ /\ tthreads' = tthreads + 1
          /\ threadId' = ThreadResponse(NewThreadId(tthreads + 1)).threadId
          /\ UNCHANGED threadError
       \/ /\ threadError' = ThreadErrorResponse(500, ThreadFailedError).error
          /\ UNCHANGED <<threadId, tthreads>>
    /\ initialisingThread' = FALSE
    /\ UNCHANGED <<productFile, productAudience, productDetails, scenarios,
                   selectedScenarioIds, generatingScenarios, scenarioError,
                   generatedImages, generatingImages, imageError, scenarioFetches,
                   imageCalls>>

handleFileSelection ==
    /\ productFile' = "photo.png"
    /\ productFile # "photo.png"
    /\ UNCHANGED <<threadId, threadError, initialisingThread, productAudience,
                   productDetails, scenarios, selectedScenarioIds, generatingScenarios,
                   scenarioError, generatedImages, generatingImages, imageError,
                   threadFetches, scenarioFetches, imageCalls>>

\* typing into the audience and product details fields
TypeBrief ==
    /\ \E a \in {"", "Trail runners"}, d \in {"", "Insulated steel bottle"} :
          /\ <<a, d>> # <<productAudience, productDetails>>
          /\ productAudience' = a
          /\ productDetails' = d
    /\ UNCHANGED <<threadId, threadError, initialisingThread, productFile, scenarios,
                   selectedScenarioIds, generatingScenarios, scenarioError,
                   generatedImages, generatingImages, imageError, threadFetches,
                   scenarioFetches, imageCalls>>

\* a click on a scenario card; the cards are rendered while no scenario
\* request is pending
toggleScenario ==
    /\ ~generatingScenarios
    /\ \E id \in Ids(scenarios) :
          selectedScenarioIds' =
              IF id \in selectedScenarioIds
              THEN selectedScenarioIds \ {id}
              ELSE selectedScenarioIds \cup {id}
    /\ UNCHANGED <<threadId, threadError, initialisingThread, productFile,
                   productAudience, productDetails, scenarios, generatingScenarios,
                   scenarioError, generatedImages, generatingImages, imageError,
                   threadFetches, scenarioFetches, imageCalls>>

\* handleGenerateScenarios behind a button that stays enabled while a request
\* is pending
handleGenerateScenariosWhilePending ==
    /\ canRequestScenarios
    /\ Len(scenarioFetches) < MaxPending
    /\ threadId # ""
    /\ generatingScenarios' = TRUE
    /\ scenarioError' = ""
    /\ generatedImages' = <<>>
    /\ scenarioFetches' = Append(scenarioFetches,
          [ScenarioBaseBody EXCEPT !.threadId = threadId, !.audience = productAudience,
                                   !.productDetails = productDetails,
                                   !.shots = defaultSettings.shots,
                                   !.focusOnProduct = defaultSettings.focusOnProduct])
    /\ UNCHANGED <<threadId, threadError, initialisingThread, productFile,
                   productAudience, productDetails, scenarios, selectedScenarioIds,
                   generatingImages, imageError, threadFetches, imageCalls>>

\* handleGenerateScenarios up to its fetch; the button is disabled unless
\* canRequestScenarios and not generatingScenarios
handleGenerateScenarios ==
    /\ canRequestScenarios /\ ~generatingScenarios
    /\ Len(scenarioFetches) < MaxPending
    /\ threadId # ""
    /\ generatingScenarios' = TRUE
    /\ scenarioError' = ""
    /\ generatedImages' = <<>>
    /\ scenarioFetches' = Append(scenarioFetches,
          [ScenarioBaseBody EXCEPT !.threadId = threadId, !.audience = productAudience,
                                   !.productDetails = productDetails,
                                   !.shots = defaultSettings.shots,
                                   !.focusOnProduct = defaultSettings.focusOnProduct])
    /\ UNCHANGED <<threadId, threadError, initialisingThread, productFile,
                   productAudience, productDetails, scenarios, selectedScenarioIds,
                   generatingImages, imageError, threadFetches, imageCalls>>

Remove(seq, k) == SubSeq(seq, 1, k - 1) \o SubSeq(seq, k + 1, Len(seq))

\* a scenario fetch settles: setScenarios and setSelectedScenarioIds, or
\* setScenarioError; finally
ScenariosSettle ==
    /\ \E k \in 1..Len(scenarioFetches) :
        /\ scenarioFetches' = Remove(scenarioFetches, k)
        /\ \/ \E batch \in ResponseBatches :
                LET resp == ScenariosResponse(scenarioFetches[k].threadId, [scenarios |-> batch])
                IN  /\ scenarios' = resp.scenarios
                    /\ selectedScenarioIds' = Ids(resp.scenarios)
                    /\ UNCHANGED scenarioError
           \/ /\ scenarioError' = ScenariosFailedError
              /\ UNCHANGED <<scenarios, selectedScenarioIds>>
    /\ generatingScenarios' = FALSE
    /\ UNCHANGED <<threadId, threadError, initialisingThread, productFile,
                   productAudience, productDetails, generatedImages, generatingImages,
                   imageError, threadFetches, imageCalls>>

\* handleGenerateImages up to await toBase64; the button is disabled unless
\* canGenerateImages and not generatingImages.  The call keeps the scenarios,
\* selection and thread id of the render it was made in.
handleGenerateImages ==
    /\ canGenerateImages /\ ~generatingImages
    /\ Len(imageCalls) < MaxPending
    /\ productFile # ""
    /\ generatingImages' = TRUE
    /\ imageError' = ""
    /\ imageCalls' = Append(imageCalls,
          [stage |-> "toBase64", threadId |-> threadId, scenarios |-> scenarios,
           selectedScenarioIds |-> selectedScenarioIds, chosenScenarios |-> <<>>])
    /\ UNCHANGED <<threadId, threadError, initialisingThread, productFile,
                   productAudience, productDetails, scenarios, selectedScenarioIds,
                   generatingScenarios, scenarioError, generatedImages, threadFetches,
                   scenarioFetches>>

\* scenarios.filter((scenario) => selectedScenarioIds.has(scenario.id))
chosenScenarios(batch, selected) == SelectSeq(batch, LAMBDA sc : sc.id \in selected)

\* the catch and finally of handleGenerateImages
ImagesFailed(k, message) ==
    /\ imageError' = message
    /\ generatingImages' = FALSE
    /\ imageCalls' = Remove(imageCalls, k)
    /\ UNCHANGED generatedImages

\* toBase64 settles: the file could not be read, no scenario is chosen, or
\* the fetch is issued
ImageFileRead ==
    /\ \E k \in 1..Len(imageCalls) :
        /\ imageCalls[k].stage = "toBase64"
        /\ \/ ImagesFailed(k, "Failed to read file")
           \/ LET chosen == chosenScenarios(imageCalls[k].scenarios,
                                            imageCalls[k].selectedScenarioIds)
              IN  IF chosen = <<>>
                  THEN ImagesFailed(k, "Select at least one scenario to render")
                  ELSE /\ imageCalls' = [imageCalls EXCEPT ![k].stage = "fetch",
                                                          ![k].chosenScenarios = chosen]
                       /\ UNCHANGED <<generatedImages, generatingImages, imageError>>
    /\ UNCHANGED <<threadId, threadError, initialisingThread, productFile,
                   productAudience, productDetails, scenarios, selectedScenarioIds,
                   generatingScenarios, scenarioError, threadFetches, scenarioFetches>>

\* the results of the image endpoint for a request whose provider calls all
\* returned the same image part
RECURSIVE RenderAll(_, _)
RenderAll(batch, part) ==
    IF batch = <<>> THEN <<>>
    ELSE PushResult(RenderAll(SubSeq(batch, 1, Len(batch) - 1), part), part, batch[Len(batch)])

\* the image fetch settles: setGeneratedImages, or setImageError; finally
ImagesSettle ==
    /\ \E k \in 1..Len(imageCalls) :
        /\ imageCalls[k].stage = "fetch"
        /\ \/ /\ generatedImages' =
                    ImagesResponse(RenderAll(imageCalls[k].chosenScenarios, ImagePart1)).images
              /\ generatingImages' = FALSE
              /\ imageCalls' = Remove(imageCalls, k)
              /\ UNCHANGED imageError
           \/ ImagesFailed(k, GenerationFailedError)
    /\ UNCHANGED <<threadId, threadError, initialisingThread, productFile,
                   productAudience, productDetails, scenarios, selectedScenarioIds,
                   generatingScenarios, scenarioError, threadFetches, scenarioFetches>>

\* the page has mounted: the effect has called createThread
UInit ==
    /\ threadId = ""
    /\ threadError = ""
    /\ initialisingThread = TRUE
    /\ productFile = ""
    /\ productAudience = ""
    /\ productDetails = ""
    /\ scenarios = <<>>
    /\ selectedScenarioIds = {}
    /\ generatingScenarios = FALSE
    /\ scenarioError = ""
    /\ generatedImages = <<>>
    /\ generatingImages = FALSE
    /\ imageError = ""
    /\ threadFetches = 1
    /\ scenarioFetches = <<>>
    /\ imageCalls = <<>>

\* the page of a server that nobody has opened
UIdle ==
    /\ threadId = ""
    /\ threadError = ""
    /\ initialisingThread = FALSE
    /\ productFile = ""
    /\ productAudience = ""
    /\ productDetails = ""
    /\ scenarios = <<>>
    /\ selectedScenarioIds = {}
    /\ generatingScenarios = FALSE
    /\ scenarioError = ""
    /\ generatedImages = <<>>
    /\ generatingImages = FALSE
    /\ imageError = ""
    /\ threadFetches = 0
    /\ scenarioFetches = <<>>
    /\ imageCalls = <<>>

----------------------------------------------------------------------------
(* Specifications: one per component, the others at rest *)

grest == <<cachedClient, createCount, gpc, gbody, gidx, results,
           gfetches, gsettled, ginserts, gresponse, glog>>

InitGenerate == env \in GenerateEnvs /\ GInit /\ SInit /\ TInit /\ UIdle
NextGenerate ==
    \E h \in OneHandler :
        \/ GReceive(h) /\ UNCHANGED <<svars, tvars, uvars>>
        \/ GReadBody(h) /\ UNCHANGED <<svars, tvars, uvars>>
        \/ GFetchSettles(h) /\ UNCHANGED <<svars, tvars, uvars>>
        \/ GInsertSettles(h) /\ UNCHANGED <<svars, tvars, uvars>>
SpecGenerate == InitGenerate /\ [][NextGenerate]_vars

InitScenarios == env \in ScenarioEnvs /\ GInit /\ SInit /\ TInit /\ UIdle
NextScenarios ==
    \/ SReceive /\ UNCHANGED <<grest, tvars, uvars>>
    \/ SReadBody /\ UNCHANGED <<grest, tvars, uvars>>
    \/ SMessageSettles /\ UNCHANGED <<grest, tvars, uvars>>
    \/ SRunSettles /\ UNCHANGED <<grest, tvars, uvars>>
    \/ SListSettles /\ UNCHANGED <<grest, tvars, uvars>>
SpecScenarios == InitScenarios /\ [][NextScenarios]_vars

\* the assistant's side: the thread initializer, and the first scenario
\* request of the process
SReceiveFirst == sserved = 0 /\ SReceive

InitThread == env \in ScenarioEnvs /\ GInit /\ SInit /\ TInit /\ UIdle
NextThread ==
    \/ \E h \in ThreadHandlers : TReceive(h) /\ UNCHANGED <<grest, svars, uvars>>
    \/ \E h \in ThreadHandlers : TCreateSettles(h) /\ UNCHANGED <<grest, svars, uvars>>
    \/ SReceiveFirst /\ UNCHANGED <<grest, tvars, uvars>>
    \/ SReadBody /\ UNCHANGED <<grest, tvars, uvars>>
    \/ SMessageSettles /\ UNCHANGED <<grest, tvars, uvars>>
    \/ SRunSettles /\ UNCHANGED <<grest, tvars, uvars>>
    \/ SListSettles /\ UNCHANGED <<grest, tvars, uvars>>
SpecThread == InitThread /\ [][NextThread]_vars

\* image requests handled at once, each carrying the base body
GReceiveBase(h) == GReceive(h) /\ gbody'[h] = BaseBody

InitCache == env \in GenerateEnvs /\ GInit /\ SInit /\ TInit /\ UIdle
NextCache ==
    \E h \in Handlers :
        \/ GReceiveBase(h) /\ UNCHANGED <<svars, tvars, uvars>>
        \/ GReadBody(h) /\ UNCHANGED <<svars, tvars, uvars>>
        \/ GFetchSettles(h) /\ UNCHANGED <<svars, tvars, uvars>>
        \/ GInsertSettles(h) /\ UNCHANGED <<svars, tvars, uvars>>
SpecCache == InitCache /\ [][NextCache]_vars

\* the two endpoints that call a provider, side by side: image requests, and
\* one scenario request, which carries the base body
SReceiveBase == SReceiveFirst /\ sbody' = ScenarioBaseBody

UpstreamEnv ==
    [GOOGLE_GEMINI_API_KEY |-> TRUE, SUPABASE_URL |-> "valid",
     SUPABASE_SERVICE_ROLE_KEY |-> TRUE, OPENAI_API_KEY |-> TRUE,
     OPENAI_ASSISTANT_ID |-> TRUE]

InitUpstream == env = UpstreamEnv /\ GInit /\ SInit /\ TInit /\ UIdle
NextUpstream ==
    \/ \E h \in OneHandler : GReceive(h) /\ UNCHANGED <<svars, tvars, uvars>>
    \/ \E h \in OneHandler : GReadBody(h) /\ UNCHANGED <<svars, tvars, uvars>>
    \/ \E h \in OneHandler : GFetchSettles(h) /\ UNCHANGED <<svars, tvars, uvars>>
    \/ \E h \in OneHandler : GInsertSettles(h) /\ UNCHANGED <<svars, tvars, uvars>>
    \/ SReceiveBase /\ UNCHANGED <<grest, tvars, uvars>>
    \/ SReadBody /\ UNCHANGED <<grest, tvars, uvars>>
    \/ SMessageSettles /\ UNCHANGED <<grest, tvars, uvars>>
    \/ SRunSettles /\ UNCHANGED <<grest, tvars, uvars>>
    \/ SListSettles /\ UNCHANGED <<grest, tvars, uvars>>
SpecUpstream == InitUpstream /\ [][NextUpstream]_vars

\* one scenario request whose run leaves a valid batch, fenced or alone
InitFenced == env = UpstreamEnv /\ GInit /\ SInit /\ TInit /\ UIdle
NextFenced ==
    \/ SReceiveBase /\ UNCHANGED <<grest, tvars, uvars>>
    \/ SReadBody /\ UNCHANGED <<grest, tvars, uvars>>
    \/ SMessageSettles /\ UNCHANGED <<grest, tvars, uvars>>
    \/ SRunSettlesWith(FencedContents) /\ UNCHANGED <<grest, tvars, uvars>>
    \/ SListSettles /\ UNCHANGED <<grest, tvars, uvars>>
SpecFenced == InitFenced /\ [][NextFenced]_vars

\* the page, against servers that answer as the endpoints above do
PageEnv ==
    [GOOGLE_GEMINI_API_KEY |-> TRUE, SUPABASE_URL |-> "unset",
     SUPABASE_SERVICE_ROLE_KEY |-> FALSE, OPENAI_API_KEY |-> TRUE,
     OPENAI_ASSISTANT_ID |-> TRUE]

trest == <<tserved, tpc, tcreates, tsettled, tresponse, tlog>>

InitPage == env = PageEnv /\ GInit /\ SInit /\ TInit /\ UInit
NextPage ==
    \/ ClickRetry /\ UNCHANGED <<gvars, svars, tvars>>
    \/ ThreadSettles /\ UNCHANGED <<gvars, svars, trest>>
    \/ handleFileSelection /\ UNCHANGED <<gvars, svars, tvars>>
    \/ TypeBrief /\ UNCHANGED <<gvars, svars, tvars>>
    \/ toggleScenario /\ UNCHANGED <<gvars, svars, tvars>>
    \/ handleGenerateScenarios /\ UNCHANGED <<gvars, svars, tvars>>
    \/ ScenariosSettle /\ UNCHANGED <<gvars, svars, tvars>>
    \/ handleGenerateImages /\ UNCHANGED <<gvars, svars, tvars>>
    \/ ImageFileRead /\ UNCHANGED <<gvars, svars, tvars>>
    \/ ImagesSettle /\ UNCHANGED <<gvars, svars, tvars>>
SpecPage == InitPage /\ [][NextPage]_vars

----------------------------------------------------------------------------
(* Claims about the image-generation endpoint *)

\* the request of handler h passed validation
GValid(h) == gbody[h].json /\ requestSchema(gbody[h]) = {}

\* every provider call of handler h's request has settled and was accepted
GAllAccepted(h) ==
    /\ GValid(h)
    /\ Len(gsettled[h]) = Len(gbody[h].scenarios)
    /\ \A k \in 1..Len(gsettled[h]) : gsettled[h][k]

\* C1: when the request is valid (N >= 1 scenarios, a valid product image)
\* and every provider call succeeded, the response carries an images list of
\* exactly N entries and the i-th entry's scenario has the id of the i-th
\* input scenario.
C1_ImagesMatchScenarios ==
    \A h \in Handlers :
        (gpc[h] = "done" /\ GAllAccepted(h)) =>
            /\ Len(gresponse[h].images) = Len(gbody[h].scenarios)
            /\ \A k \in 1..Len(gresponse[h].images) :
                    gresponse[h].images[k].scenario.id = gbody[h].scenarios[k].id

\* C2: when the provider call for the k-th scenario is refused (a non-success
\* status, or no complete inline image), the request ends at once with the
\* generic 500 and no images; k calls were issued in all, one per scenario
\* 1..k in input order, so none after k and no second call for k.
C2_FailureAbortsBatch ==
    \A h \in Handlers :
        \A k \in 1..Len(gsettled[h]) :
            ~gsettled[h][k] =>
                /\ k = Len(gsettled[h])
                /\ gpc[h] = "done"
                /\ gresponse[h] = ErrorResponse(500, GenerationFailedError, {})
                /\ gresponse[h].images = <<>>
                /\ Len(gfetches[h]) = k
                /\ \A j \in 1..k :
                      gfetches[h][j] =
                          GeminiRequest(requestData(gbody[h]), gbody[h].scenarios[j])

\* C2's case: the second provider call of a request was refused after the
\* first had produced an image
C2_Witness ==
    \E h \in Handlers :
        /\ gpc[h] = "done"
        /\ Len(gsettled[h]) = 2 /\ gsettled[h][1] /\ ~gsettled[h][2]
        /\ Len(results[h]) = 1
        /\ Len(gbody[h].scenarios) = 2

\* C3: when every provider call succeeded, the response is the success
\* response with the rendered images, whatever the persistence step did
\* (whether the client could be constructed, whether the insert reported an
\* error or rejected).
C3_PersistenceNeverFails ==
    \A h \in Handlers :
        (gpc[h] = "done" /\ GAllAccepted(h)) =>
            gresponse[h] = ImagesResponse(results[h])

\* both datastore credentials are set
CredentialsConfigured == env.SUPABASE_URL # "unset" /\ env.SUPABASE_SERVICE_ROLE_KEY

\* the insert calls carry one row per image: scenario id, title and summary,
\* the thread id or null, the settings
GRowsMatch(h) ==
    \A c \in 1..Len(ginserts[h]) :
        LET rows == ginserts[h][c]
        IN  /\ Len(rows) = Len(gbody[h].scenarios)
            /\ Len(rows) = Len(results[h])
            /\ \A k \in 1..Len(rows) :
                /\ rows[k].scenario_id = gbody[h].scenarios[k].id
                /\ rows[k].scenario_title = gbody[h].scenarios[k].title
                /\ rows[k].scenario_summary = gbody[h].scenarios[k].summary
                /\ rows[k].thread_id =
                      (IF gbody[h].threadId = Undefined THEN "null" ELSE gbody[h].threadId)
                /\ rows[k].settings = gbody[h].settings

\* what C4 says of requests whatever the persistence outcome: at most one
\* insert, of one row per image; a refused provider call gives the generic
\* 500 and no write; without credentials no write and the success response
GWriteRules(h) ==
    /\ Len(ginserts[h]) <= 1
    /\ GRowsMatch(h)
    /\ (gpc[h] = "done" /\ ginserts[h] # <<>> /\ gresponse[h].status = 200) =>
            Len(ginserts[h][1]) = Len(gresponse[h].images)
    /\ (\E k \in 1..Len(gsettled[h]) : ~gsettled[h][k]) =>
            /\ ginserts[h] = <<>>
            /\ gpc[h] = "done" /\ gresponse[h] = ErrorResponse(500, GenerationFailedError, {})
    /\ (gpc[h] = "done" /\ GAllAccepted(h) /\ ~CredentialsConfigured) =>
            /\ ginserts[h] = <<>>
            /\ gresponse[h] = ImagesResponse(results[h])

\* C4 as stated: a write is attempted iff every provider call succeeded and
\* credentials are configured.
C4_WriteIffConfigured ==
    \A h \in Handlers :
        /\ GWriteRules(h)
        /\ gpc[h] \in {"awaitInsert", "done"} =>
              (ginserts[h] # <<>> <=> (GAllAccepted(h) /\ CredentialsConfigured))

\* C4 amended: a write is attempted iff every provider call succeeded,
\* credentials are configured and the datastore client could be obtained
\* (createClient did not throw).
C4_WriteIffClient ==
    \A h \in Handlers :
        /\ GWriteRules(h)
        /\ gpc[h] \in {"awaitInsert", "done"} =>
              (ginserts[h] # <<>> <=>
                  (GAllAccepted(h) /\ CredentialsConfigured /\ ~createClientThrows(env)))

\* C4's case: a request of two scenarios has issued its insert
C4_Witness ==
    \E h \in Handlers :
        /\ gpc[h] = "done" /\ gresponse[h].status = 200
        /\ Len(ginserts[h]) = 1 /\ Len(ginserts[h][1]) = 2
        /\ gbody[h].threadId = Undefined

\* C5: without the provider's API key, every request, whatever its body, is
\* answered with the configuration error (500) as soon as it arrives; no
\* provider request and no datastore write is issued, the body is not read.
C5_NoKeyNoCalls ==
    ~env.GOOGLE_GEMINI_API_KEY =>
        /\ createCount = 0 /\ cachedClient = "null"
        /\ \A h \in Handlers :
            /\ gfetches[h] = <<>> /\ ginserts[h] = <<>>
            /\ gpc[h] \in {"idle", "done"}
            /\ gpc[h] = "done" => gresponse[h] = ErrorResponse(500, MissingKeyError, {})

\* C5's case: a request with a valid body was answered without the key
C5_Witness ==
    \E h \in Handlers :
        /\ ~env.GOOGLE_GEMINI_API_KEY
        /\ gpc[h] = "done" /\ GValid(h) /\ Len(gbody[h].scenarios) = 2
        /\ CredentialsConfigured

----------------------------------------------------------------------------
(* Claims about the scenario generator *)

AssistantConfigured == env.OPENAI_API_KEY /\ env.OPENAI_ASSISTANT_ID

\* C7: when the assistant run ends in a status other than "completed", the
\* request ends with the generic 500 and no scenarios, and the thread's
\* messages are neither listed nor parsed for that request.
C7_RunNotCompletedFails ==
    \A k \in 1..Len(sruns) :
        sruns[k] # "completed" =>
            /\ spc = "done"
            /\ sresponse = ScenarioErrorResponse(500, ScenariosFailedError, {})
            /\ sresponse.scenarios = <<>>
            /\ slists = 0
            /\ sraw = NoRaw

\* C7's case: a run expired on a thread that holds an assistant message with
\* valid scenarios from an earlier request
C7_Witness ==
    /\ spc = "done"
    /\ sruns = <<"expired">>
    /\ \E k \in 1..Len(thread) :
          thread[k] = AssistantMessage(<<TextContent(<<"{scenarios:[a,b]}">>)>>)

\* the assistant text the request extracted parses as JSON (once sanitized)
\* and validates against the scenario-batch schema
SRawIsBatch ==
    /\ sraw.found
    /\ JSONparse(sanitizeResponse(sraw.text)).ok
    /\ scenarioResponseSchema(JSONparse(sanitizeResponse(sraw.text)).value)

\* C8: a success response is given only when the assistant's text parses as
\* JSON and validates against the scenario-batch schema, and then carries the
\* parsed scenarios, at least one, each with id, title and summary; a request
\* that listed the messages and found no text, or a text that does not parse
\* or validate, gets the generic 500; a failure response carries one of the
\* three fixed messages and no scenarios, so none of the provider's text.
C8_OnlyValidBatches ==
    /\ sresponse.status = 200 =>
          /\ SRawIsBatch
          /\ sresponse.scenarios = JSONparse(sanitizeResponse(sraw.text)).value.scenarios
          /\ Len(sresponse.scenarios) >= 1
          /\ \A k \in 1..Len(sresponse.scenarios) :
                /\ sresponse.scenarios[k].id # Undefined
                /\ sresponse.scenarios[k].title # Undefined
                /\ sresponse.scenarios[k].summary # Undefined
    /\ (spc = "done" /\ slists > 0 /\ ~SRawIsBatch) =>
          sresponse = ScenarioErrorResponse(500, ScenariosFailedError, {})
    /\ (spc = "done" /\ sresponse.status # 200) =>
          /\ sresponse.scenarios = <<>>
          /\ sresponse.error \in
                {ScenariosFailedError, InvalidScenarioPayloadError, MissingAssistantError}
          /\ sresponse.status = 500 => sresponse.details = {}

\* C8's case: the assistant answered with an empty scenarios list
C8_Witness ==
    /\ spc = "done"
    /\ sraw = [found |-> TRUE, text |-> <<"{scenarios:[]}">>]
    /\ sresponse.status = 500

\* the request lacks a thread id, or its audience or product details is
\* missing or empty
SMissingRequired ==
    \/ sbody.threadId = Undefined
    \/ sbody.audience \in {Undefined, ""}
    \/ sbody.productDetails \in {Undefined, ""}

\* the fields of the request body that break the schema, in the claim's words
SViolatedFields ==
    {f \in {"threadId", "audience", "productDetails", "shots", "focusOnProduct"} :
        \/ f = "threadId" /\ sbody.threadId = Undefined
        \/ f = "audience" /\ sbody.audience \in {Undefined, ""}
        \/ f = "productDetails" /\ sbody.productDetails \in {Undefined, ""}
        \/ f = "shots" /\ sbody.shots.kind = "number"
              /\ (sbody.shots.half \/ sbody.shots.whole < 1 \/ sbody.shots.whole > 12)
        \/ f = "focusOnProduct" /\ sbody.focusOnProduct.kind = "number"
              /\ (sbody.focusOnProduct.half \/ sbody.focusOnProduct.whole < 1
                    \/ sbody.focusOnProduct.whole > 5)}

\* the request being handled left the provider's side as it found it
SNothingSent ==
    /\ sposts = 0 /\ sruns = <<>> /\ slists = 0
    /\ Len(thread) = sarrival

\* C9: with the assistant configured, a request without a thread id, or with
\* a missing or empty audience or product details, is answered 400 with the
\* violated fields as details; no message is posted, no run is started and
\* the thread is unchanged.
C9_InvalidRequestRejected ==
    (AssistantConfigured /\ spc # "idle" /\ sbody.json /\ SMissingRequired) =>
        /\ spc \in {"readBody", "done"}
        /\ SNothingSent
        /\ spc = "done" =>
              /\ sresponse.status = 400
              /\ sresponse.error = InvalidScenarioPayloadError
              /\ sresponse.details = SViolatedFields
              /\ sresponse.scenarios = <<>>

\* C9's case: a request without thread id and audience was answered, on a
\* thread that an earlier request had written to
C9_Witness ==
    /\ spc = "done"
    /\ sbody.json /\ sbody.threadId = Undefined /\ sbody.audience = ""
    /\ sresponse.details = {"threadId", "audience", "shots"}
    /\ Len(thread) = 2

\* n clamped into lo..hi
Clamp(n, lo, hi) == IF n < lo THEN lo ELSE IF n > hi THEN hi ELSE n

\* the request is valid but for the ranges of shots and focus level, which
\* are integers or omitted
SIntegerRequest ==
    /\ AssistantConfigured /\ sbody.json /\ ~SMissingRequired
    /\ ~sbody.shots.half /\ ~sbody.focusOnProduct.half

\* the user messages of the thread carry a shot count in 1..12 and a focus
\* level in 1..5
SBriefsInRange ==
    \A k \in 1..Len(thread) :
        thread[k].role = "user" =>
            /\ thread[k].brief.shots.kind = "number" /\ ~thread[k].brief.shots.half
            /\ thread[k].brief.shots.whole \in 1..12
            /\ thread[k].brief.focusOnProduct.kind = "number"
            /\ ~thread[k].brief.focusOnProduct.half
            /\ thread[k].brief.focusOnProduct.whole \in 1..5

\* C10 as stated: a request with an integer shot count or focus level outside
\* its range is processed, not rejected, and its brief carries the value
\* clamped into the range (6 and 3 when omitted).
C10_Clamped ==
    /\ SBriefsInRange
    /\ (SIntegerRequest /\ spc \notin {"idle", "readBody"}) =>
          /\ sresponse.status # 400
          /\ Len(thread) > sarrival =>
                /\ thread[sarrival + 1].brief.shots =
                      (IF sbody.shots.kind = "number"
                       THEN Num(Clamp(sbody.shots.whole, 1, 12)) ELSE Num(6))
                /\ thread[sarrival + 1].brief.focusOnProduct =
                      (IF sbody.focusOnProduct.kind = "number"
                       THEN Num(Clamp(sbody.focusOnProduct.whole, 1, 5)) ELSE Num(3))

\* C10 amended: shots must be an integer in 1..12 and the focus level an
\* integer in 1..5.  A request with either outside its range is rejected with
\* 400, the field among the details, and nothing is sent to the assistant; a
\* request with both in range or omitted is not rejected and its brief
\* carries the given values, 6 and 3 when omitted; every brief carries a shot
\* count in 1..12 and a focus level in 1..5.
C10_RangeValidated ==
    /\ SBriefsInRange
    /\ (SIntegerRequest /\ spc \notin {"idle", "readBody"}) =>
          IF SViolatedFields # {}
          THEN /\ spc = "done"
               /\ sresponse.status = 400
               /\ sresponse.details = SViolatedFields
               /\ SNothingSent
          ELSE /\ sresponse.status # 400
               /\ Len(thread) > sarrival =>
                     /\ thread[sarrival + 1].brief.shots =
                           (IF sbody.shots.kind = "number" THEN sbody.shots ELSE Num(6))
                     /\ thread[sarrival + 1].brief.focusOnProduct =
                           (IF sbody.focusOnProduct.kind = "number"
                            THEN sbody.focusOnProduct ELSE Num(3))

\* C10's case: a request asking for 13 shots was rejected, on a thread that
\* holds the brief of a request that omitted shots and focus level
C10_Witness ==
    /\ spc = "done"
    /\ sbody.json /\ sbody.shots = Num(13) /\ ~SMissingRequired
    /\ sresponse.status = 400
    /\ \E k \in 1..Len(thread) :
          /\ thread[k].role = "user"
          /\ thread[k].brief.shots = Num(6) /\ thread[k].brief.focusOnProduct = Num(3)

----------------------------------------------------------------------------
(* Claims about the page *)

\* C6: every image of the gallery has a scenario id that is an id of the
\* current scenarios state.
C6_GalleryWithinBatch ==
    \A k \in 1..Len(generatedImages) :
        generatedImages[k].scenario.id \in Ids(scenarios)

----------------------------------------------------------------------------
(* Claims about the thread initializer *)

\* C11: without the assistant API key or the assistant identifier, a thread
\* request (and likewise a scenario request) is answered with its
\* configuration error (500) and the provider is never contacted; with both,
\* a thread request calls threads.create() exactly once, and when that call
\* rejects the response is the generic 500, with no second call.
C11_ThreadCreatedOnce ==
    /\ ~AssistantConfigured =>
          /\ tthreads = 0
          /\ \A h \in ThreadHandlers :
                /\ tcreates[h] = 0 /\ tsettled[h] = ""
                /\ tpc[h] \in {"idle", "done"}
                /\ tpc[h] = "done" =>
                      tresponse[h] = ThreadErrorResponse(500, MissingThreadEnvError)
          /\ sposts = 0 /\ sruns = <<>> /\ slists = 0 /\ thread = <<>>
          /\ spc \in {"idle", "done"}
          /\ spc = "done" =>
                sresponse = ScenarioErrorResponse(500, MissingAssistantError, {})
    /\ AssistantConfigured =>
          \A h \in ThreadHandlers :
              /\ tpc[h] # "idle" => tcreates[h] = 1
              /\ tpc[h] = "awaitCreate" => tsettled[h] = ""
              /\ tpc[h] = "done" =>
                    /\ tsettled[h] # ""
                    /\ tsettled[h] = "ok" =>
                          /\ tresponse[h].status = 200
                          /\ tresponse[h].threadId # ""
                    /\ tsettled[h] # "ok" =>
                          tresponse[h] = ThreadErrorResponse(500, ThreadFailedError)

\* C11's case: of two thread requests, one got its thread and the other's
\* threads.create() call was rejected
C11_Witness ==
    /\ tpc["t1"] = "done" /\ tsettled["t1"] = "ok"
    /\ tpc["t2"] = "done" /\ tsettled["t2"] \notin {"", "ok"}
    /\ tthreads = 1

\* C12: on the page a thread is created once per session.  Once a thread id
\* is stored no thread request is pending and Retry is not offered, every
\* scenario request sent carries the stored id, the stored id never changes
\* and no thread request is issued any more; a thread request is issued after
\* the mount only while a failed attempt's error is shown.
C12_ThreadOncePerSession ==
    /\ [](threadId # "" =>
            /\ threadFetches = 0 /\ threadError = ""
            /\ \A k \in 1..Len(scenarioFetches) : scenarioFetches[k].threadId = threadId)
    /\ [][/\ threadId # "" => (threadId' = threadId /\ threadFetches' = threadFetches)
          /\ threadFetches' > threadFetches => threadError # ""]_vars

\* C12's case: a thread id is stored, one scenario batch has been received
\* and a second scenario request is on its way
C12_Witness ==
    /\ threadId = NewThreadId(1)
    /\ scenarios # <<>>
    /\ Len(scenarioFetches) = 1 /\ scenarioFetches[1].threadId = NewThreadId(1)

----------------------------------------------------------------------------
(* Claims about both provider-facing endpoints *)

\* C13: the response to an upstream or shape failure does not depend on what
\* the provider sent.  An image request one of whose provider calls was
\* refused (whatever the status, the error body or the malformed payload)
\* gets the one fixed 500 response; a scenario request that reached the
\* assistant and did not end in a success gets the one fixed 500 response,
\* and it does not end in a success unless the assistant's text is a valid
\* batch.  What the provider sent is in the server's log only.
C13_GenericFailureBody ==
    /\ \A h \in Handlers :
          (gpc[h] = "done" /\ \E k \in 1..Len(gsettled[h]) : ~gsettled[h][k]) =>
              gresponse[h] = ErrorResponse(500, GenerationFailedError, {})
    /\ (spc = "done" /\ sposts > 0 /\ ~SRawIsBatch) =>
          sresponse = ScenarioErrorResponse(500, ScenariosFailedError, {})

\* C13's case: the image provider answered 429 with an error body, which is
\* in the log, and the assistant answered with prose
C13_Witness ==
    /\ \E h \in Handlers :
          /\ gpc[h] = "done" /\ glog[h] # <<>>
          /\ glog[h][1].detail = "quota exceeded for key AIza..."
    /\ spc = "done"
    /\ sraw = [found |-> TRUE, text |-> <<"I cannot help with that.">>]


\* C14: every request to the two endpoints is answered by the handler itself,
\* with the success shape or with an error message and status 400 or 500; no
\* request makes the handler end with an uncaught exception.
C14_HandlerAlwaysAnswers ==
    /\ \A h \in Handlers :
          /\ gpc[h] # "threw"
          /\ gpc[h] = "done" =>
                \/ gresponse[h].status = 200 /\ gresponse[h].error = ""
                \/ gresponse[h].status \in {400, 500} /\ gresponse[h].error # ""
    /\ spc # "threw"
    /\ spc = "done" =>
          \/ sresponse.status = 200 /\ sresponse.error = ""
          \/ sresponse.status \in {400, 500} /\ sresponse.error # ""


\* C15: when the assistant's message is a valid scenario batch J between
\* code fences (three backticks, or three backticks and the word json,
\* before; three backticks after; white space allowed around each), the
\* request succeeds with the scenarios of J, which is also the response when
\* the message is J alone.
C15_FencesStripped ==
    \A d \in BatchDocs :
        (spc = "done" /\ sraw.found /\ sraw.text \in (Fenced(d) \cup {<<d>>})) =>
            sresponse = ScenariosResponse(sbody.threadId, JsonDocs[d])

\* C15's case: the batch came fenced as json, on lines of its own
C15_Witness ==
    /\ spc = "done"
    /\ sraw = [found |-> TRUE,
               text |-> <<"FENCE", "json", "\n", "{scenarios:[a,b]}", "\n", "FENCE">>]
    /\ sresponse.status = 200
    /\ sresponse.scenarios = <<ScenarioA, ScenarioB>>


\* sequence seq has x among its elements
Contains(seq, x) == \E i \in 1..Len(seq) : seq[i] = x

\* a JSON number as a template literal prints it
NumberText(x) == ToString(x.whole) \o (IF x.half THEN ".5" ELSE "")

\* the notes a prompt must carry for settings st
NotesFollow(notes, st) ==
    /\ Contains(notes, "Tone: " \o st.tone)
    /\ Contains(notes, "Visual style: " \o st.visualStyle)
    /\ Contains(notes, "Orientation: " \o st.orientation)
    /\ Contains(notes, "Quality: " \o st.quality)
    /\ Contains(notes, "Focus level (1-5): " \o NumberText(st.focusOnProduct))
    /\ Contains(notes, "Add subtle motion-friendly composition cues")
          <=> st.addMotion = "true"
    /\ Contains(notes, "Ensure the product looks polished and retouched")
          <=> st.retouchProduct = "true"
    /\ Contains(notes, "Include natural caption overlay space in the composition")
          <=> st.includeCaptions = "true"

GSettingsIntegers(h) ==
    LET st == gbody[h].settings
    IN  /\ st.focusOnProduct.kind = "number" /\ ~st.focusOnProduct.half
        /\ st.focusOnProduct.whole \in 1..5
        /\ st.shots.kind = "number" /\ ~st.shots.half
        /\ st.shots.whole \in 1..12

\* C18: with the API key set, a request whose focusOnProduct is not an
\* integer in 1..5 or whose shots is not an integer in 1..12 is answered 400
\* and no provider call is made for it.
C18_IntegerSettingsOnly ==
    \A h \in Handlers :
        (/\ env.GOOGLE_GEMINI_API_KEY /\ gbody[h].json
         /\ gpc[h] \notin {"idle", "readBody"} /\ ~GSettingsIntegers(h)) =>
            /\ gpc[h] = "done"
            /\ gresponse[h].status = 400
            /\ "settings" \in gresponse[h].details
            /\ gfetches[h] = <<>>


\* no two scenarios of the batch have the same id
UniqueIds(batch) ==
    \A i, j \in 1..Len(batch) : i # j => batch[i].id # batch[j].id

\* C17: scenario ids are unique within a batch, in every success response
\* of the scenario generator and in the scenarios state of the page.
C17_UniqueIds ==
    /\ sresponse.status = 200 => UniqueIds(sresponse.scenarios)
    /\ UniqueIds(scenarios)


\* C19: the provider calls of a request are sequential and in input order.
\* The k-th call issued is the call for the k-th scenario; a call is in
\* flight only while the handler awaits it, so at most one at a time; every
\* call before the last one issued has settled and was accepted; a request
\* answered with success has issued exactly one call per scenario.
C19_SequentialCalls ==
    \A h \in Handlers :
        LET n == Len(gfetches[h])
            m == Len(gsettled[h])
        IN  /\ n - m = (IF gpc[h] = "awaitFetch" THEN 1 ELSE 0)
            /\ n > 0 => n <= Len(gbody[h].scenarios)
            /\ \A k \in 1..n :
                  gfetches[h][k] =
                      GeminiRequest(requestData(gbody[h]), gbody[h].scenarios[k])
            /\ \A k \in 1..(n - 1) : k <= m /\ gsettled[h][k]
            /\ (gpc[h] = "done" /\ gresponse[h].status = 200) =>
                  n = Len(gbody[h].scenarios)

\* C19's case: the call for the second scenario is in flight, after the first
\* was accepted
C19_Witness ==
    \E h \in Handlers :
        /\ gpc[h] = "awaitFetch"
        /\ Len(gfetches[h]) = 2 /\ gsettled[h] = <<TRUE>>
        /\ gbody[h].scenarios = <<ScenarioB, ScenarioA>>


----------------------------------------------------------------------------
(* Claims about the datastore client cache *)

\* in this step handler h's last provider call was accepted, so the handler
\* called getSupabaseServerClient()
GClientCall(h) ==
    /\ gpc[h] = "awaitFetch" /\ gpc'[h] # "awaitFetch"
    /\ Len(gsettled'[h]) = Len(gbody[h].scenarios)
    /\ gsettled'[h][Len(gsettled'[h])]

\* what C20 says whatever createClient does: at most one client is ever
\* constructed, the cache holds it from then on and is never reset or
\* replaced, and with a credential missing nothing is constructed
GCacheRules ==
    /\ [](/\ createCount <= 1
          /\ cachedClient = "client" <=> createCount = 1
          /\ ~CredentialsConfigured => (createCount = 0 /\ ginserts = [h \in Handlers |-> <<>>]))
    /\ [][cachedClient = "client" =>
              (cachedClient' = "client" /\ createCount' = createCount)]_vars

\* C20 as stated: the first call with both credentials configured constructs
\* the client, and every call with both credentials gets the handle.
C20_ConstructedOnce ==
    /\ GCacheRules
    /\ [][\A h \in Handlers :
            (GClientCall(h) /\ CredentialsConfigured) =>
                /\ cachedClient' = "client"
                /\ createCount' = (IF cachedClient = "null" THEN 1 ELSE createCount)
                /\ gpc'[h] = "awaitInsert"]_vars

\* C20 amended: the first call with both credentials configured constructs
\* the client unless createClient throws (a URL that is no HTTP(S) URL); then
\* nothing is constructed or cached, and every later call tries again.
C20_ConstructedOnceUnlessThrows ==
    /\ GCacheRules
    /\ [][\A h \in Handlers :
            (GClientCall(h) /\ CredentialsConfigured) =>
                IF createClientThrows(env)
                THEN cachedClient' = "null" /\ createCount' = 0 /\ gpc'[h] = "done"
                ELSE /\ cachedClient' = "client"
                     /\ createCount' = (IF cachedClient = "null" THEN 1 ELSE createCount)
                     /\ gpc'[h] = "awaitInsert"]_vars

\* C20's case: two requests in flight at once have both issued their insert
\* through the one client
C20_Witness ==
    /\ gpc["h1"] = "awaitInsert" /\ gpc["h2"] = "awaitInsert"
    /\ createCount = 1 /\ cachedClient = "client"


----------------------------------------------------------------------------
(* C21 *)

\* call k of handleGenerateImages issues its fetch in this step
ImageRequestSent(k) ==
    /\ Len(imageCalls') = Len(imageCalls)
    /\ imageCalls[k].stage = "toBase64"
    /\ imageCalls'[k].stage = "fetch"

\* a scenario request is sent only with a thread id the page has obtained
ScenarioRequestsAfterThread ==
    \A k \in 1..Len(scenarioFetches) :
        /\ tthreads > 0
        /\ threadId # ""
        /\ scenarioFetches[k].threadId = threadId

\* an image request is sent only once a scenario batch has been received
ImageRequestsAfterBatch ==
    \A k \in 1..Len(imageCalls) :
        imageCalls[k].stage = "fetch" => scenarios # <<>>

\* the request sent carries at least one scenario
ImageRequestNotEmpty ==
    \A k \in 1..Len(imageCalls) :
        imageCalls[k].stage = "fetch" => imageCalls[k].chosenScenarios # <<>>

\* the scenarios of seq are scenarios of the batch whose ids are in selected,
\* in the order of the batch
SelectedOf(seq, batch, selected) ==
    /\ Ids(seq) \subseteq selected
    /\ seq = chosenScenarios(batch, Ids(seq))

\* C21: the page sends no scenario request before it has a thread id and no
\* image request before it has received a scenario batch, and the image
\* request it sends carries at least one scenario, each a scenario of the
\* batch the page holds when the request is sent whose id is selected then,
\* in batch order.
C21_FixedOrder ==
    /\ [](ScenarioRequestsAfterThread /\ ImageRequestsAfterBatch /\ ImageRequestNotEmpty)
    /\ [][\A k \in 1..Len(imageCalls) :
            ImageRequestSent(k) =>
                SelectedOf(imageCalls'[k].chosenScenarios, scenarios, selectedScenarioIds)]_vars


----------------------------------------------------------------------------
(* C22 *)

\* the place on the thread of the assistant message that messages.list puts
\* first, 0 if the list holds none
SNewestAssistant ==
    LET hits == {k \in 1..Len(thread) :
                    k > Len(thread) - ListLimit /\ IsAssistant(thread[k])}
    IN  IF hits = {} THEN 0 ELSE CHOOSE k \in hits : \A j \in hits : j <= k

\* C22: the scenarios of a successful response are parsed from an assistant
\* message that was put on the thread after the brief of the same request,
\* never from one an earlier request left there.
C22_ParsedFromOwnRun ==
    (spc = "done" /\ sresponse.status = 200) =>
        /\ sraw.found
        /\ SNewestAssistant > sarrival + 1
        /\ thread[sarrival + 1].role = "user"


----------------------------------------------------------------------------
(* C23 *)

\* C23: at most one scenario request and at most one image call of the page
\* are pending at any time; generatingScenarios and generatingImages are set
\* exactly while one is pending, a request is started only while none of its
\* kind is pending, and the step in which one settles clears its flag.
C23_OneInFlightPerKind ==
    /\ [](/\ Len(scenarioFetches) <= 1
          /\ Len(imageCalls) <= 1
          /\ generatingScenarios <=> (Len(scenarioFetches) = 1)
          /\ generatingImages <=> (Len(imageCalls) = 1))
    /\ [][/\ Len(scenarioFetches') > Len(scenarioFetches) =>
                ~generatingScenarios /\ scenarioFetches = <<>> /\ generatingScenarios'
          /\ Len(imageCalls') > Len(imageCalls) =>
                ~generatingImages /\ imageCalls = <<>> /\ generatingImages'
          /\ Len(scenarioFetches') < Len(scenarioFetches) => ~generatingScenarios'
          /\ Len(imageCalls') < Len(imageCalls) => ~generatingImages']_vars

\* a batch has arrived, and a later scenario request and an image request
\* are pending together
C23_Witness ==
    /\ scenarios # <<>>
    /\ Len(scenarioFetches) = 1 /\ generatingScenarios
    /\ Len(imageCalls) = 1 /\ imageCalls[1].stage = "fetch" /\ generatingImages

====
